---- MODULE Spec2Model ----
(***************************************************************************)
(* Slap Fight Bot: the game session state machine of src/game_logic.py     *)
(* (GameLogic), the session row of src/models.py / src/database.py and the *)
(* four action handlers of src/bot.py that drive it.                       *)
(*                                                                         *)
(* A session is one row of the games table.  Every handler loads the row,  *)
(* validates, applies and saves without an await in between, so one        *)
(* handler run is one atomic step on the row.                              *)
(***************************************************************************)
EXTENDS Integers, Sequences, FiniteSets, TLC

\* ---------------------------------------------------------------- bounds
\* Telegram user ids that press buttons: 1 is the creator of the session,
\* 2 the human opponent (when there is one), the others are strangers.
MaxUser == 3
\* Button payloads tried as slap / guess counts: 0..MaxValue (0 and every
\* value above 3 are illegal values).
MaxValue == 4
\* Rejected button presses (PressSpec), idle periods and sweeps (SweepSpec)
\* are followed as steps of their own while the session has made no more
\* progress than MaxAlertProgress.
MaxAlertProgress == 3

Users == 1..MaxUser
Values == 0..MaxValue

\* ---------------------------------------------------- config (config.py)
MAX_CLUBS == 2
MAX_FLINCHES == 2
MAX_HP == 20
CLUB_DAMAGE == 4
FLINCH_DAMAGE == 1
TOTAL_ROUNDS == 5
GAME_TIMEOUT == 300

\* ------------------------------------------------- GameState (models.py)
WAITING == "waiting"
PLAYER1_CHOOSE_SLAP == "player1_choose_slap"
PLAYER2_GUESS == "player2_guess"
PLAYER2_CHOOSE_SLAP == "player2_choose_slap"
PLAYER1_GUESS == "player1_guess"
ROUND_END == "round_end"
GAME_END == "game_end"
TIMED_OUT == "timed_out"

GameState ==
    {WAITING, PLAYER1_CHOOSE_SLAP, PLAYER2_GUESS, PLAYER2_CHOOSE_SLAP,
     PLAYER1_GUESS, ROUND_END, GAME_END, TIMED_OUT}

\* ---------------------------------------------- ActionType (game_logic.py)
SLAP == "slap"
GUESS == "guess"
CLUB == "club"
FLINCH == "flinch"

ActionType == {SLAP, GUESS, CLUB, FLINCH}

\* Python's None (an Optional[int] column that is NULL): equal to no user
\* id and to no slap count, and falsy.
None == -1

\* Python truthiness of an Optional[int]: None and 0 are falsy.
Truthy(x) == x # None /\ x # 0

\* abs() on integers.
Abs(x) == IF x < 0 THEN -x ELSE x

VARIABLES
    game,          \* the session row (models.Game) as stored in the games table
    last,          \* the most recent apply: who did what, and the locals it computed
    game_actions,  \* the rows the most recent apply appended to the game_actions table
    alert,         \* the alert of the most recent handler run, if it rejected the press
    idle,          \* time.time() - game.updated_at: seconds since the row was last saved
    players,       \* the wins and losses columns of the players table, by user id
    result,        \* what determine_winner returned to end_game, once end_game has run
    applies,       \* how many process_* calls have been applied to the session
    slept          \* the most recent handler run reached the follow-up's asyncio.sleep

vars == <<game, last, game_actions, alert, idle, players, result, applies, slept>>

\* ------------------------------------------------------------ GameLogic

\* Faulty variant of calculate_damage: the pair is returned in the other
\* order, (counter_damage, damage).
calculate_damage_swapped(slap_count, guess_count) ==
    LET difference == Abs(slap_count - guess_count)
    IN  IF difference = 0 THEN <<1, 1>>
        ELSE IF difference = 1 THEN <<0, 2>>
        ELSE <<0, 3>>

\* calculate_damage(slap_count, guess_count) -> (damage, counter_damage)
calculate_damage(slap_count, guess_count) ==
    LET difference == Abs(slap_count - guess_count)
    IN  IF difference = 0 THEN <<1, 1>>
        ELSE IF difference = 1 THEN <<2, 0>>
        ELSE <<3, 0>>

\* Faulty variant of is_valid_move: the club and flinch limits are tested
\* with > instead of >=, so one more than the maximum is accepted.
is_valid_move_off_by_one(g, player_id, action, value) ==
    IF g.current_turn # player_id
    THEN <<FALSE, "It's not your turn!">>
    ELSE IF player_id \notin {g.player1_id, g.player2_id}
    THEN <<FALSE, "You're not in this game!">>
    ELSE IF action = CLUB
    THEN LET clubs_used == IF player_id = g.player1_id
                           THEN g.player1_clubs ELSE g.player2_clubs
         IN  IF clubs_used > MAX_CLUBS
             THEN <<FALSE, "You've used all your clubs for this game!">>
             ELSE IF g.state \notin {PLAYER1_CHOOSE_SLAP, PLAYER2_CHOOSE_SLAP}
             THEN <<FALSE, "You can only use club when it's your turn to slap!">>
             ELSE <<TRUE, "Valid move">>
    ELSE IF action = FLINCH
    THEN LET flinches_used == IF player_id = g.player1_id
                              THEN g.player1_flinches ELSE g.player2_flinches
         IN  IF flinches_used > MAX_FLINCHES
             THEN <<FALSE, "You've used all your flinches for this game!">>
             ELSE IF g.state \notin {PLAYER1_GUESS, PLAYER2_GUESS}
             THEN <<FALSE, "You can only use flinch when it's your turn to guess!">>
             ELSE <<TRUE, "Valid move">>
    ELSE IF action = SLAP
    THEN IF value \notin {1, 2, 3}
         THEN <<FALSE, "Slap count must be 1, 2, or 3!">>
         ELSE IF \/ (player_id = g.player1_id /\ g.state # PLAYER1_CHOOSE_SLAP)
                 \/ (player_id = g.player2_id /\ g.state # PLAYER2_CHOOSE_SLAP)
         THEN <<FALSE, "It's not your turn to slap!">>
         ELSE <<TRUE, "Valid move">>
    ELSE IF action = GUESS
    THEN IF value \notin {1, 2, 3}
         THEN <<FALSE, "Guess must be 1, 2, or 3!">>
         ELSE IF \/ (player_id = g.player1_id /\ g.state # PLAYER1_GUESS)
                 \/ (player_id = g.player2_id /\ g.state # PLAYER2_GUESS)
         THEN <<FALSE, "It's not your turn to guess!">>
         ELSE <<TRUE, "Valid move">>
    ELSE <<TRUE, "Valid move">>

\* Faulty variant of valid_club: the phase is tested before the club count.
valid_club_phase_first(g, player_id) ==
    LET clubs_used == IF player_id = g.player1_id
                      THEN g.player1_clubs ELSE g.player2_clubs
    IN  IF g.state \notin {PLAYER1_CHOOSE_SLAP, PLAYER2_CHOOSE_SLAP}
        THEN <<FALSE, "You can only use club when it's your turn to slap!">>
        ELSE IF clubs_used >= MAX_CLUBS
        THEN <<FALSE, "You've used all your clubs for this game!">>
        ELSE <<TRUE, "Valid move">>

\* The CLUB branch of is_valid_move.
valid_club(g, player_id) ==
    LET clubs_used == IF player_id = g.player1_id
                      THEN g.player1_clubs ELSE g.player2_clubs
    IN  IF clubs_used >= MAX_CLUBS
        THEN <<FALSE, "You've used all your clubs for this game!">>
        ELSE IF g.state \notin {PLAYER1_CHOOSE_SLAP, PLAYER2_CHOOSE_SLAP}
        THEN <<FALSE, "You can only use club when it's your turn to slap!">>
        ELSE <<TRUE, "Valid move">>

\* Faulty variant of valid_flinch: the phase is tested before the flinch
\* count.
valid_flinch_phase_first(g, player_id) ==
    LET flinches_used == IF player_id = g.player1_id
                         THEN g.player1_flinches ELSE g.player2_flinches
    IN  IF g.state \notin {PLAYER1_GUESS, PLAYER2_GUESS}
        THEN <<FALSE, "You can only use flinch when it's your turn to guess!">>
        ELSE IF flinches_used >= MAX_FLINCHES
        THEN <<FALSE, "You've used all your flinches for this game!">>
        ELSE <<TRUE, "Valid move">>

\* The FLINCH branch of is_valid_move.
valid_flinch(g, player_id) ==
    LET flinches_used == IF player_id = g.player1_id
                         THEN g.player1_flinches ELSE g.player2_flinches
    IN  IF flinches_used >= MAX_FLINCHES
        THEN <<FALSE, "You've used all your flinches for this game!">>
        ELSE IF g.state \notin {PLAYER1_GUESS, PLAYER2_GUESS}
        THEN <<FALSE, "You can only use flinch when it's your turn to guess!">>
        ELSE <<TRUE, "Valid move">>

\* Faulty variant of valid_slap: the phase is tested before the value.
valid_slap_phase_first(g, player_id, value) ==
    IF \/ (player_id = g.player1_id /\ g.state # PLAYER1_CHOOSE_SLAP)
       \/ (player_id = g.player2_id /\ g.state # PLAYER2_CHOOSE_SLAP)
    THEN <<FALSE, "It's not your turn to slap!">>
    ELSE IF value \notin {1, 2, 3}
    THEN <<FALSE, "Slap count must be 1, 2, or 3!">>
    ELSE <<TRUE, "Valid move">>

\* Faulty variant of valid_slap: the phase is tested for player 1 only.
valid_slap_one_sided(g, player_id, value) ==
    IF value \notin {1, 2, 3}
    THEN <<FALSE, "Slap count must be 1, 2, or 3!">>
    ELSE IF player_id = g.player1_id /\ g.state # PLAYER1_CHOOSE_SLAP
    THEN <<FALSE, "It's not your turn to slap!">>
    ELSE <<TRUE, "Valid move">>

\* The SLAP branch of is_valid_move.
valid_slap(g, player_id, value) ==
    IF value \notin {1, 2, 3}
    THEN <<FALSE, "Slap count must be 1, 2, or 3!">>
    ELSE IF \/ (player_id = g.player1_id /\ g.state # PLAYER1_CHOOSE_SLAP)
            \/ (player_id = g.player2_id /\ g.state # PLAYER2_CHOOSE_SLAP)
    THEN <<FALSE, "It's not your turn to slap!">>
    ELSE <<TRUE, "Valid move">>

\* Faulty variant of valid_guess: the phase is tested for player 1 only.
valid_guess_one_sided(g, player_id, value) ==
    IF value \notin {1, 2, 3}
    THEN <<FALSE, "Guess must be 1, 2, or 3!">>
    ELSE IF player_id = g.player1_id /\ g.state # PLAYER1_GUESS
    THEN <<FALSE, "It's not your turn to guess!">>
    ELSE <<TRUE, "Valid move">>

\* The GUESS branch of is_valid_move.
valid_guess(g, player_id, value) ==
    IF value \notin {1, 2, 3}
    THEN <<FALSE, "Guess must be 1, 2, or 3!">>
    ELSE IF \/ (player_id = g.player1_id /\ g.state # PLAYER1_GUESS)
            \/ (player_id = g.player2_id /\ g.state # PLAYER2_GUESS)
    THEN <<FALSE, "It's not your turn to guess!">>
    ELSE <<TRUE, "Valid move">>

\* Faulty variant of is_valid_move: the membership test comes before the
\* turn test.
is_valid_move_membership_first(g, player_id, action, value) ==
    IF player_id \notin {g.player1_id, g.player2_id}
    THEN <<FALSE, "You're not in this game!">>
    ELSE IF g.current_turn # player_id
    THEN <<FALSE, "It's not your turn!">>
    ELSE IF action = CLUB THEN valid_club(g, player_id)
    ELSE IF action = FLINCH THEN valid_flinch(g, player_id)
    ELSE IF action = SLAP THEN valid_slap(g, player_id, value)
    ELSE IF action = GUESS THEN valid_guess(g, player_id, value)
    ELSE <<TRUE, "Valid move">>

\* is_valid_move(game, player_id, action, value) -> (ok, message)
is_valid_move(g, player_id, action, value) ==
    IF g.current_turn # player_id
    THEN <<FALSE, "It's not your turn!">>
    ELSE IF player_id \notin {g.player1_id, g.player2_id}
    THEN <<FALSE, "You're not in this game!">>
    ELSE IF action = CLUB THEN valid_club(g, player_id)
    ELSE IF action = FLINCH THEN valid_flinch(g, player_id)
    ELSE IF action = SLAP THEN valid_slap(g, player_id, value)
    ELSE IF action = GUESS THEN valid_guess(g, player_id, value)
    ELSE <<TRUE, "Valid move">>

\* One row of the game_actions table (db.add_game_action); game_id and the
\* timestamp are left out, absent columns are None.
ActionRow(round_number, player_id, action_type, slap_count, guess_count, damage) ==
    [round_number |-> round_number, player_id |-> player_id,
     action_type |-> action_type, slap_count |-> slap_count,
     guess_count |-> guess_count, damage |-> damage]

\* Faulty variant of process_slap: player 2's slap is written to
\* player1_slap.
process_slap_wrong_field(g, player_id, slap_count) ==
    IF player_id = g.player1_id
    THEN [g EXCEPT !.player1_slap = slap_count,
                   !.state = PLAYER2_GUESS,
                   !.current_turn = g.player2_id]
    ELSE [g EXCEPT !.player1_slap = slap_count,
                   !.state = PLAYER1_GUESS,
                   !.current_turn = g.player1_id]

\* Faulty variant of process_slap: when seat B has no occupant the turn is
\* set to 0, the value the handlers test for.
process_slap_turn_zero(g, player_id, slap_count) ==
    IF player_id = g.player1_id
    THEN [g EXCEPT !.player1_slap = slap_count,
                   !.state = PLAYER2_GUESS,
                   !.current_turn = IF Truthy(g.player2_id)
                                    THEN g.player2_id ELSE 0]
    ELSE [g EXCEPT !.player2_slap = slap_count,
                   !.state = PLAYER1_GUESS,
                   !.current_turn = g.player1_id]

\* process_slap(game, player_id, slap_count) -> game
process_slap(g, player_id, slap_count) ==
    IF player_id = g.player1_id
    THEN [g EXCEPT !.player1_slap = slap_count,
                   !.state = PLAYER2_GUESS,
                   !.current_turn = g.player2_id]
    ELSE [g EXCEPT !.player2_slap = slap_count,
                   !.state = PLAYER1_GUESS,
                   !.current_turn = g.player1_id]

\* the row process_slap logs
slap_rows(g, player_id, slap_count) ==
    <<ActionRow(g.round_number, player_id, SLAP, slap_count, None, None)>>

\* The slap the guess of player_id is resolved against (process_guess's
\* local slap_count).
guessed_slap(g, player_id) ==
    IF player_id = g.player1_id THEN g.player2_slap ELSE g.player1_slap

\* process_guess raises TypeError in calculate_damage (None - int) when the
\* slap it reads is None; nothing is applied, logged or saved then.
guess_raises(g, player_id) == guessed_slap(g, player_id) = None

\* Faulty variant of resolve_round: the round limit is tested with >.
resolve_round_strict(g) ==
    IF g.player1_hp <= 0 \/ g.player2_hp <= 0 \/ g.round_number > TOTAL_ROUNDS
    THEN [g EXCEPT !.state = GAME_END]
    ELSE LET round_number == g.round_number + 1
         IN  IF round_number % 2 = 1
             THEN [g EXCEPT !.round_number = round_number,
                            !.player1_slap = None,
                            !.player2_slap = None,
                            !.state = PLAYER1_CHOOSE_SLAP,
                            !.current_turn = g.player1_id]
             ELSE [g EXCEPT !.round_number = round_number,
                            !.player1_slap = None,
                            !.player2_slap = None,
                            !.state = PLAYER2_CHOOSE_SLAP,
                            !.current_turn = g.player2_id]

\* Faulty variant of resolve_round: player2_slap is not cleared.
resolve_round_keeps_slap(g) ==
    IF g.player1_hp <= 0 \/ g.player2_hp <= 0 \/ g.round_number >= TOTAL_ROUNDS
    THEN [g EXCEPT !.state = GAME_END]
    ELSE LET round_number == g.round_number + 1
         IN  IF round_number % 2 = 1
             THEN [g EXCEPT !.round_number = round_number,
                            !.player1_slap = None,
                            !.state = PLAYER1_CHOOSE_SLAP,
                            !.current_turn = g.player1_id]
             ELSE [g EXCEPT !.round_number = round_number,
                            !.player1_slap = None,
                            !.state = PLAYER2_CHOOSE_SLAP,
                            !.current_turn = g.player2_id]

\* Faulty variant of resolve_round: the parity test is inverted.
resolve_round_flipped(g) ==
    IF g.player1_hp <= 0 \/ g.player2_hp <= 0 \/ g.round_number >= TOTAL_ROUNDS
    THEN [g EXCEPT !.state = GAME_END]
    ELSE LET round_number == g.round_number + 1
         IN  IF round_number % 2 = 0
             THEN [g EXCEPT !.round_number = round_number,
                            !.player1_slap = None,
                            !.player2_slap = None,
                            !.state = PLAYER1_CHOOSE_SLAP,
                            !.current_turn = g.player1_id]
             ELSE [g EXCEPT !.round_number = round_number,
                            !.player1_slap = None,
                            !.player2_slap = None,
                            !.state = PLAYER2_CHOOSE_SLAP,
                            !.current_turn = g.player2_id]

\* Faulty variant of resolve_round: only the round limit ends the game.
resolve_round_no_knockout(g) ==
    IF g.round_number >= TOTAL_ROUNDS
    THEN [g EXCEPT !.state = GAME_END]
    ELSE LET round_number == g.round_number + 1
         IN  IF round_number % 2 = 1
             THEN [g EXCEPT !.round_number = round_number,
                            !.player1_slap = None,
                            !.player2_slap = None,
                            !.state = PLAYER1_CHOOSE_SLAP,
                            !.current_turn = g.player1_id]
             ELSE [g EXCEPT !.round_number = round_number,
                            !.player1_slap = None,
                            !.player2_slap = None,
                            !.state = PLAYER2_CHOOSE_SLAP,
                            !.current_turn = g.player2_id]

\* The round-end part of process_guess, on the game with the damage applied.
resolve_round(g) ==
    IF g.player1_hp <= 0 \/ g.player2_hp <= 0 \/ g.round_number >= TOTAL_ROUNDS
    THEN [g EXCEPT !.state = GAME_END]
    ELSE LET round_number == g.round_number + 1
         IN  IF round_number % 2 = 1
             THEN [g EXCEPT !.round_number = round_number,
                            !.player1_slap = None,
                            !.player2_slap = None,
                            !.state = PLAYER1_CHOOSE_SLAP,
                            !.current_turn = g.player1_id]
             ELSE [g EXCEPT !.round_number = round_number,
                            !.player1_slap = None,
                            !.player2_slap = None,
                            !.state = PLAYER2_CHOOSE_SLAP,
                            !.current_turn = g.player2_id]

\* Faulty variant of process_guess: damage and counter damage hit the wrong
\* seats.
process_guess_swapped(g, player_id, guess_count) ==
    LET dmg == calculate_damage(guessed_slap(g, player_id), guess_count)
        damage == dmg[1]
        counter_damage == dmg[2]
    IN  IF player_id = g.player1_id
        THEN resolve_round([g EXCEPT !.player1_hp = @ - damage,
                                     !.player2_hp = @ - counter_damage])
        ELSE resolve_round([g EXCEPT !.player2_hp = @ - damage,
                                     !.player1_hp = @ - counter_damage])

\* process_guess(game, player_id, guess_count) -> game
process_guess(g, player_id, guess_count) ==
    LET dmg == calculate_damage(guessed_slap(g, player_id), guess_count)
        damage == dmg[1]
        counter_damage == dmg[2]
    IN  IF player_id = g.player1_id
        THEN resolve_round([g EXCEPT !.player1_hp = @ - counter_damage,
                                     !.player2_hp = @ - damage])
        ELSE resolve_round([g EXCEPT !.player2_hp = @ - counter_damage,
                                     !.player1_hp = @ - damage])

\* Faulty variant of guess_rows: the rows are logged after the round has
\* been resolved, with the new round number.
guess_rows_new_round(g, player_id, guess_count) ==
    LET dmg == calculate_damage(guessed_slap(g, player_id), guess_count)
        slapper_id == IF player_id = g.player1_id
                      THEN g.player2_id ELSE g.player1_id
        round_number == process_guess(g, player_id, guess_count).round_number
    IN  <<ActionRow(round_number, player_id, GUESS, None, guess_count, dmg[1])>>
        \o (IF dmg[2] > 0
            THEN <<ActionRow(round_number, slapper_id, "counter_damage",
                             None, None, dmg[2])>>
            ELSE <<>>)

\* the rows process_guess logs: the guess, then the counter damage if any
guess_rows(g, player_id, guess_count) ==
    LET dmg == calculate_damage(guessed_slap(g, player_id), guess_count)
        slapper_id == IF player_id = g.player1_id
                      THEN g.player2_id ELSE g.player1_id
    IN  <<ActionRow(g.round_number, player_id, GUESS, None, guess_count, dmg[1])>>
        \o (IF dmg[2] > 0
            THEN <<ActionRow(g.round_number, slapper_id, "counter_damage",
                             None, None, dmg[2])>>
            ELSE <<>>)

\* Faulty variant of check_game_over: an HP of exactly 0 is not a knockout.
check_game_over_strict(g) ==
    IF g.player1_hp < 0 \/ g.player2_hp < 0
    THEN [g EXCEPT !.state = GAME_END]
    ELSE g

\* The knockout check that ends process_club and process_flinch.
check_game_over(g) ==
    IF g.player1_hp <= 0 \/ g.player2_hp <= 0
    THEN [g EXCEPT !.state = GAME_END]
    ELSE g

\* Faulty variant of process_club: the turn is not handed to the opponent.
process_club_keeps_turn(g, player_id) ==
    IF player_id = g.player1_id
    THEN check_game_over([g EXCEPT !.player1_clubs = @ + 1,
                                   !.player2_hp = @ - CLUB_DAMAGE,
                                   !.state = PLAYER2_CHOOSE_SLAP])
    ELSE check_game_over([g EXCEPT !.player2_clubs = @ + 1,
                                   !.player1_hp = @ - CLUB_DAMAGE,
                                   !.state = PLAYER1_CHOOSE_SLAP])

\* Faulty variant of process_club: player 2's club is counted for player 1.
process_club_wrong_counter(g, player_id) ==
    IF player_id = g.player1_id
    THEN check_game_over([g EXCEPT !.player1_clubs = @ + 1,
                                   !.player2_hp = @ - CLUB_DAMAGE,
                                   !.current_turn = g.player2_id,
                                   !.state = PLAYER2_CHOOSE_SLAP])
    ELSE check_game_over([g EXCEPT !.player1_clubs = @ + 1,
                                   !.player1_hp = @ - CLUB_DAMAGE,
                                   !.current_turn = g.player1_id,
                                   !.state = PLAYER1_CHOOSE_SLAP])

\* process_club(game, player_id) -> game
process_club(g, player_id) ==
    IF player_id = g.player1_id
    THEN check_game_over([g EXCEPT !.player1_clubs = @ + 1,
                                   !.player2_hp = @ - CLUB_DAMAGE,
                                   !.current_turn = g.player2_id,
                                   !.state = PLAYER2_CHOOSE_SLAP])
    ELSE check_game_over([g EXCEPT !.player2_clubs = @ + 1,
                                   !.player1_hp = @ - CLUB_DAMAGE,
                                   !.current_turn = g.player1_id,
                                   !.state = PLAYER1_CHOOSE_SLAP])

\* the row process_club logs
club_rows(g, player_id) ==
    <<ActionRow(g.round_number, player_id, CLUB, None, None, CLUB_DAMAGE)>>

\* Faulty variant of process_flinch: it deals the club damage.
process_flinch_club_damage(g, player_id) ==
    IF player_id = g.player1_id
    THEN check_game_over([g EXCEPT !.player1_flinches = @ + 1,
                                   !.player2_hp = @ - CLUB_DAMAGE,
                                   !.current_turn = g.player2_id,
                                   !.state = PLAYER2_CHOOSE_SLAP])
    ELSE check_game_over([g EXCEPT !.player2_flinches = @ + 1,
                                   !.player1_hp = @ - CLUB_DAMAGE,
                                   !.current_turn = g.player1_id,
                                   !.state = PLAYER1_CHOOSE_SLAP])

\* Faulty variant of process_flinch: the turn is not handed to the opponent.
process_flinch_keeps_turn(g, player_id) ==
    IF player_id = g.player1_id
    THEN check_game_over([g EXCEPT !.player1_flinches = @ + 1,
                                   !.player2_hp = @ - FLINCH_DAMAGE,
                                   !.state = PLAYER2_CHOOSE_SLAP])
    ELSE check_game_over([g EXCEPT !.player2_flinches = @ + 1,
                                   !.player1_hp = @ - FLINCH_DAMAGE,
                                   !.state = PLAYER1_CHOOSE_SLAP])

\* process_flinch(game, player_id) -> game
process_flinch(g, player_id) ==
    IF player_id = g.player1_id
    THEN check_game_over([g EXCEPT !.player1_flinches = @ + 1,
                                   !.player2_hp = @ - FLINCH_DAMAGE,
                                   !.current_turn = g.player2_id,
                                   !.state = PLAYER2_CHOOSE_SLAP])
    ELSE check_game_over([g EXCEPT !.player2_flinches = @ + 1,
                                   !.player1_hp = @ - FLINCH_DAMAGE,
                                   !.current_turn = g.player1_id,
                                   !.state = PLAYER1_CHOOSE_SLAP])

\* the row process_flinch logs
flinch_rows(g, player_id) ==
    <<ActionRow(g.round_number, player_id, FLINCH, None, None, FLINCH_DAMAGE)>>

\* The messages of determine_winner: the text and the id formatted into it.
Message(format, player_id) == [format |-> format, player_id |-> player_id]

\* Faulty variant of determine_winner: the test for game_end is missing.
determine_winner_no_guard(g) ==
    IF g.player1_hp <= 0 /\ g.player2_hp <= 0
    THEN <<None, Message("It's a draw!", None)>>
    ELSE IF g.player1_hp <= 0
    THEN <<g.player2_id, Message("Player {} wins!", g.player2_id)>>
    ELSE IF g.player2_hp <= 0
    THEN <<g.player1_id, Message("Player {} wins!", g.player1_id)>>
    ELSE IF g.player1_hp > g.player2_hp
    THEN <<g.player1_id, Message("Player {} wins by HP!", g.player1_id)>>
    ELSE IF g.player2_hp > g.player1_hp
    THEN <<g.player2_id, Message("Player {} wins by HP!", g.player2_id)>>
    ELSE <<None, Message("It's a draw!", None)>>

\* Faulty variant of determine_winner: the knocked-out seat is named the
\* winner.
determine_winner_knockout_swapped(g) ==
    IF g.state # GAME_END
    THEN <<None, Message("Game is not over yet", None)>>
    ELSE IF g.player1_hp <= 0 /\ g.player2_hp <= 0
    THEN <<None, Message("It's a draw!", None)>>
    ELSE IF g.player1_hp <= 0
    THEN <<g.player1_id, Message("Player {} wins!", g.player1_id)>>
    ELSE IF g.player2_hp <= 0
    THEN <<g.player2_id, Message("Player {} wins!", g.player2_id)>>
    ELSE IF g.player1_hp > g.player2_hp
    THEN <<g.player1_id, Message("Player {} wins by HP!", g.player1_id)>>
    ELSE IF g.player2_hp > g.player1_hp
    THEN <<g.player2_id, Message("Player {} wins by HP!", g.player2_id)>>
    ELSE <<None, Message("It's a draw!", None)>>

\* determine_winner(game) -> (winner_id, message)
determine_winner(g) ==
    IF g.state # GAME_END
    THEN <<None, Message("Game is not over yet", None)>>
    ELSE IF g.player1_hp <= 0 /\ g.player2_hp <= 0
    THEN <<None, Message("It's a draw!", None)>>
    ELSE IF g.player1_hp <= 0
    THEN <<g.player2_id, Message("Player {} wins!", g.player2_id)>>
    ELSE IF g.player2_hp <= 0
    THEN <<g.player1_id, Message("Player {} wins!", g.player1_id)>>
    ELSE IF g.player1_hp > g.player2_hp
    THEN <<g.player1_id, Message("Player {} wins by HP!", g.player1_id)>>
    ELSE IF g.player2_hp > g.player1_hp
    THEN <<g.player2_id, Message("Player {} wins by HP!", g.player2_id)>>
    ELSE <<None, Message("It's a draw!", None)>>

\* Faulty variant of ai_moves: the club and the flinch are picked whatever
\* the number already used.
ai_moves_no_limit(g) ==
    IF ~Truthy(g.player2_id)
    THEN {}
    ELSE IF g.state = PLAYER2_CHOOSE_SLAP
    THEN {<<CLUB, None>>} \cup {<<SLAP, slap_count>> : slap_count \in 1..3}
    ELSE IF g.state = PLAYER2_GUESS
    THEN {<<FLINCH, None>>} \cup {<<GUESS, guess_count>> : guess_count \in 1..3}
    ELSE {}

\* Faulty variant of ai_moves: a club or a commit is also picked in
\* player 1's choosing phase.
ai_moves_any_choose(g) ==
    IF ~Truthy(g.player2_id)
    THEN {}
    ELSE IF g.state \in {PLAYER1_CHOOSE_SLAP, PLAYER2_CHOOSE_SLAP}
    THEN (IF g.player2_clubs < MAX_CLUBS THEN {<<CLUB, None>>} ELSE {})
         \cup {<<SLAP, slap_count>> : slap_count \in 1..3}
    ELSE IF g.state = PLAYER2_GUESS
    THEN (IF g.player2_flinches < MAX_FLINCHES THEN {<<FLINCH, None>>} ELSE {})
         \cup {<<GUESS, guess_count>> : guess_count \in 1..3}
    ELSE {}

\* The moves make_ai_move may pick in game g, as <<action, value>>.  The
\* random.random() < 0.2 draw may come out either way, random.randint(1, 3)
\* gives any of 1, 2, 3.  No move: make_ai_move returns the game as it is.
ai_moves(g) ==
    IF ~Truthy(g.player2_id)
    THEN {}
    ELSE IF g.state = PLAYER2_CHOOSE_SLAP
    THEN (IF g.player2_clubs < MAX_CLUBS THEN {<<CLUB, None>>} ELSE {})
         \cup {<<SLAP, slap_count>> : slap_count \in 1..3}
    ELSE IF g.state = PLAYER2_GUESS
    THEN (IF g.player2_flinches < MAX_FLINCHES THEN {<<FLINCH, None>>} ELSE {})
         \cup {<<GUESS, guess_count>> : guess_count \in 1..3}
    ELSE {}

\* ------------------------------------------------ one apply and its record

\* What `last` records of an apply: the game it was applied to, the action,
\* its actor and value, who called it ("handler": a button press, "ai":
\* make_ai_move), and for a guess the locals slap_count, damage and
\* counter_damage of process_guess.
Applied(before, action, player_id, value, by, slap_count, damage, counter_damage) ==
    [before |-> before, action |-> action, player_id |-> player_id,
     value |-> value, by |-> by, slap_count |-> slap_count,
     damage |-> damage, counter_damage |-> counter_damage]

\* The outcome of process_<action>(g, player_id, value): the new game, the
\* record of the apply and the rows logged.
Outcome(g, player_id, action, value, by) ==
    IF action = SLAP
    THEN [game |-> process_slap(g, player_id, value),
          last |-> Applied(g, SLAP, player_id, value, by, None, None, None),
          rows |-> slap_rows(g, player_id, value)]
    ELSE IF action = GUESS
    THEN IF guess_raises(g, player_id)
         THEN [game |-> g,
               last |-> Applied(g, "TypeError", player_id, value, by, None, None, None),
               rows |-> <<>>]
         ELSE LET slap_count == guessed_slap(g, player_id)
                  dmg == calculate_damage(slap_count, value)
              IN  [game |-> process_guess(g, player_id, value),
                   last |-> Applied(g, GUESS, player_id, value, by,
                                    slap_count, dmg[1], dmg[2]),
                   rows |-> guess_rows(g, player_id, value)]
    ELSE IF action = CLUB
    THEN [game |-> process_club(g, player_id),
          last |-> Applied(g, CLUB, player_id, None, by, None, CLUB_DAMAGE, None),
          rows |-> club_rows(g, player_id)]
    ELSE [game |-> process_flinch(g, player_id),
          last |-> Applied(g, FLINCH, player_id, None, by, None, FLINCH_DAMAGE, None),
          rows |-> flinch_rows(g, player_id)]

\* make_ai_move(game) -> game: the games it can return, each with the rows
\* logged on the way.  With no move to pick it returns the game as it is.
make_ai_move(g) ==
    IF ai_moves(g) = {}
    THEN {[game |-> g, rows |-> <<>>]}
    ELSE {[game |-> Outcome(g, g.player2_id, m[1], m[2], "ai").game,
           rows |-> Outcome(g, g.player2_id, m[1], m[2], "ai").rows] :
              m \in ai_moves(g)}

\* No alert: the most recent handler run accepted the press.
NoAlert == [message |-> "none"]

\* The alert of a rejected press (query.answer(error_msg, show_alert=True)),
\* with the press it answers and the stored session and logged rows the
\* handler run started from.
Alert(user_id, action, value, message) ==
    [message |-> message, user_id |-> user_id, action |-> action,
     value |-> value, before |-> game, rows_before |-> game_actions]

\* end_game has not run.
NoResult == <<None, Message("none", None)>>

\* A row of the players table: wins, and losses counted in halves (a draw
\* adds 0.5 to losses, a defeat adds 1).
PlayerRow(wins, losses_x2) == [wins |-> wins, losses_x2 |-> losses_x2]

\* end_game(update, context, game): the players table after it has updated
\* the statistics.  player2 is None when seat B has no occupant; in that
\* case the branch `winner_id == game.player2_id` raises AttributeError on
\* player2.losses before anything is saved.
end_game(g, table) ==
    LET winner_id == determine_winner(g)[1]
        has_player2 == Truthy(g.player2_id)
        p1 == g.player1_id
        p2 == g.player2_id
    IN  IF winner_id = g.player1_id
        THEN IF has_player2
             THEN [table EXCEPT ![p1].wins = @ + 1, ![p2].losses_x2 = @ + 2]
             ELSE [table EXCEPT ![p1].wins = @ + 1]
        ELSE IF winner_id = g.player2_id
        THEN IF has_player2
             THEN [table EXCEPT ![p2].losses_x2 = @ + 2, ![p1].losses_x2 = @ + 2]
             ELSE table
        ELSE IF has_player2
             THEN [table EXCEPT ![p1].losses_x2 = @ + 1, ![p2].losses_x2 = @ + 1]
             ELSE [table EXCEPT ![p1].losses_x2 = @ + 1]

\* The step that saves outcome o after n applies: db.update_game writes
\* the row with updated_at = time.time().
Save(o, n) ==
    /\ game' = o.game
    /\ last' = o.last
    /\ game_actions' = o.rows
    /\ alert' = NoAlert
    /\ idle' = 0
    /\ applies' = applies + n

\* The step that stores outcome o of one apply, with no end_game.
Store(o) ==
    /\ Save(o, 1)
    /\ slept' = FALSE
    /\ UNCHANGED <<players, result>>

\* The step that stores outcome o of one apply and, the game being over,
\* runs end_game on it.
StoreEnd(o) ==
    /\ Save(o, 1)
    /\ slept' = FALSE
    /\ players' = end_game(o.game, players)
    /\ result' = determine_winner(o.game)

\* The scripted opponent's follow-up in a handler, after the outcome o of
\* the player's own apply has been stored: `await asyncio.sleep(2)`, then
\* make_ai_move(game), db.update_game(game) and (not in handle_slap) end_game
\* when the game is over.  bot.py never imports asyncio, so the first of
\* these raises NameError and the run stops with what it had stored.
AiMove(o) ==
    /\ Save(o, 1)
    /\ slept' = TRUE
    /\ UNCHANGED <<players, result>>

\* Faulty variant of ai_follow_up: the turn is compared with None, the
\* value it has when seat B has no occupant.
ai_follow_up_none(g) == ~Truthy(g.player2_id) /\ g.current_turn = None

\* The handlers' test for the scripted opponent's follow-up move:
\* `not game.player2_id and game.current_turn == 0`.
ai_follow_up(g) == ~Truthy(g.player2_id) /\ g.current_turn = 0

\* --------------------------------------------------------------- handlers

\* Faulty variant of Handle: end_game is never run.
Handle_no_end_game(user_id, action, value) ==
    /\ is_valid_move(game, user_id, action, value)[1]
    /\ LET o == Outcome(game, user_id, action, value, "handler")
       IN  IF action # SLAP /\ o.game.state = GAME_END
           THEN Store(o)
           ELSE IF ai_follow_up(o.game)
           THEN AiMove(o)
           ELSE Store(o)

\* The common body of handle_slap, handle_guess, handle_club and
\* handle_flinch: validate, apply and save, then (not in handle_slap)
\* end_game and return when the game is over, then the follow-up move of
\* the scripted opponent.  There is no await between db.get_game and
\* db.update_game, so up to the follow-up the run is one step.  A rejected
\* move returns before anything is applied, stored or logged: it is no step.
Handle(user_id, action, value) ==
    /\ is_valid_move(game, user_id, action, value)[1]
    /\ LET o == Outcome(game, user_id, action, value, "handler")
       IN  IF action # SLAP /\ o.game.state = GAME_END
           THEN StoreEnd(o)
           ELSE IF ai_follow_up(o.game)
           THEN AiMove(o)
           ELSE Store(o)

\* Faulty variant of Rejected: the return after the alert is missing, the
\* handler goes on to apply and save the move.
Rejected_no_return(user_id, action, value) ==
    /\ ~is_valid_move(game, user_id, action, value)[1]
    /\ alert' = Alert(user_id, action, value,
                      is_valid_move(game, user_id, action, value)[2])
    /\ LET o == Outcome(game, user_id, action, value, "handler")
       IN  /\ game' = o.game
           /\ last' = o.last
           /\ game_actions' = o.rows
           /\ idle' = 0
           /\ applies' = applies + 1
           /\ UNCHANGED <<players, result, slept>>

\* The other way through the four handlers: is_valid_move rejects the press,
\* the handler shows the message as an alert and returns.
Rejected(user_id, action, value) ==
    /\ ~is_valid_move(game, user_id, action, value)[1]
    /\ alert' = Alert(user_id, action, value,
                      is_valid_move(game, user_id, action, value)[2])
    /\ UNCHANGED <<game, last, game_actions, idle, players, result, applies, slept>>

handle_slap(user_id, slap_count) == Handle(user_id, SLAP, slap_count)

handle_guess(user_id, guess_count) == Handle(user_id, GUESS, guess_count)

handle_club(user_id) == Handle(user_id, CLUB, None)

handle_flinch(user_id) == Handle(user_id, FLINCH, None)

\* GameLogic.make_ai_move called on the stored session by a caller of the
\* engine (the engine's TakeAiTurn entry point), and the result saved.  When
\* make_ai_move picks no move it returns the game as it is: no step.
TakeAiTurn ==
    \E m \in ai_moves(game) :
        Store(Outcome(game, game.player2_id, m[1], m[2], "ai"))

\* What cleanup_timed_out_games does to a session it finds timed out:
\* game.state = GameState.TIMED_OUT.
timed_out(g) == [g EXCEPT !.state = TIMED_OUT]

\* ------------------------------------------------------------------ spec

\* Faulty variant of create_game: both seats start with half of MAX_HP.
create_game_low_hp(player1_id, player2_id) ==
    [player1_id |-> player1_id, player2_id |-> player2_id,
     player1_hp |-> MAX_HP \div 2, player2_hp |-> MAX_HP \div 2,
     player1_clubs |-> 0, player2_clubs |-> 0,
     player1_flinches |-> 0, player2_flinches |-> 0,
     current_turn |-> player1_id, round_number |-> 1,
     state |-> PLAYER1_CHOOSE_SLAP,
     player1_slap |-> None, player2_slap |-> None]

\* db.create_game(player1_id, player2_id): a new session row; player2_id is
\* None for a session against the scripted opponent (the only call the bot
\* makes, find_opponent's db.create_game(user_id)) and a user id for a
\* session between two players.
create_game(player1_id, player2_id) ==
    [player1_id |-> player1_id, player2_id |-> player2_id,
     player1_hp |-> MAX_HP, player2_hp |-> MAX_HP,
     player1_clubs |-> 0, player2_clubs |-> 0,
     player1_flinches |-> 0, player2_flinches |-> 0,
     current_turn |-> player1_id, round_number |-> 1,
     state |-> PLAYER1_CHOOSE_SLAP,
     player1_slap |-> None, player2_slap |-> None]

Init ==
    /\ \E player2_id \in {None, 2} : game = create_game(1, player2_id)
    /\ last = Applied(game, "none", None, None, "none", None, None, None)
    /\ game_actions = <<>>
    /\ alert = NoAlert
    /\ idle = 0
    /\ players = [user_id \in Users |-> PlayerRow(0, 0)]
    /\ result = NoResult
    /\ applies = 0
    /\ slept = FALSE

Next ==
    \/ \E user_id \in Users, slap_count \in Values : handle_slap(user_id, slap_count)
    \/ \E user_id \in Users, guess_count \in Values : handle_guess(user_id, guess_count)
    \/ \E user_id \in Users : handle_club(user_id)
    \/ \E user_id \in Users : handle_flinch(user_id)
    \/ TakeAiTurn

Spec == Init /\ [][Next]_vars

\* How far a session has got: the clubs and flinches used, and for every
\* round completed as much as all the clubs and flinches of a game.
Progress(g) ==
    g.player1_clubs + g.player2_clubs + g.player1_flinches + g.player2_flinches
    + 2 * (MAX_CLUBS + MAX_FLINCHES) * (g.round_number - 1)

\* The presses is_valid_move rejects, as steps: any user, any action, any
\* value (None for a club or a flinch, which carry no value).
RejectedPress ==
    /\ Progress(game) <= MaxAlertProgress
    /\ \/ \E user_id \in Users, value \in Values : Rejected(user_id, SLAP, value)
       \/ \E user_id \in Users, value \in Values : Rejected(user_id, GUESS, value)
       \/ \E user_id \in Users : Rejected(user_id, CLUB, None)
       \/ \E user_id \in Users : Rejected(user_id, FLINCH, None)

PressNext == Next \/ RejectedPress

\* The handlers with the rejected presses of the first rounds as steps.
PressSpec == Init /\ [][PressNext]_vars

\* ---------------------------------------------------------------- sweep

\* GameLogic.check_game_timeout(game), called when time.time() -
\* game.updated_at is `elapsed`.  Its first statement reads time.time(), and
\* game_logic.py never imports time: the call raises NameError before the
\* comparison with GAME_TIMEOUT is reached.
check_game_timeout(elapsed) == "NameError"

\* The sessions cleanup_timed_out_games collects: `for user_id in []` runs
\* no iteration, all_games stays empty.
all_games == {}

\* Time passes with no press: the row's age reaches one second less than
\* GAME_TIMEOUT, GAME_TIMEOUT, or one second more.
Wait ==
    /\ Progress(game) <= MaxAlertProgress
    /\ \E elapsed \in {GAME_TIMEOUT - 1, GAME_TIMEOUT, GAME_TIMEOUT + 1} :
          /\ elapsed > idle
          /\ idle' = elapsed
    /\ UNCHANGED <<game, last, game_actions, alert, players, result, applies, slept>>

\* One run of the job cleanup_timed_out_games: every collected session that
\* check_game_timeout finds timed out is set to timed_out and saved.  `last`
\* records the run, with the age of the row as its value.
cleanup_timed_out_games ==
    /\ Progress(game) <= MaxAlertProgress
    /\ IF game \in all_games /\ check_game_timeout(idle) = "True"
       THEN game' = timed_out(game) /\ idle' = 0
       ELSE UNCHANGED <<game, idle>>
    /\ last' = Applied(game, "cleanup_timed_out_games", None, idle,
                       "job_queue", None, None, None)
    /\ UNCHANGED <<game_actions, alert, players, result, applies, slept>>

SweepNext == Next \/ Wait \/ cleanup_timed_out_games

\* The handlers, idle time and the periodic sweep, which the job queue keeps
\* scheduling (run_repeating).
SweepSpec ==
    Init /\ [][SweepNext]_vars /\ WF_vars(cleanup_timed_out_games)

\* The handlers under the assumption that a press that can be applied is
\* eventually made, each handler run going through to its end.
LiveSpec == Init /\ [][Next]_vars /\ WF_vars(Next)

\* One validated apply of the engine, whoever calls it: is_valid_move
\* accepts the move for player_id, the matching process_* is applied and
\* the result stored.  player_id is the id of a seat, None for seat B of a
\* session against the scripted opponent.
Apply(player_id, action, value) ==
    /\ is_valid_move(game, player_id, action, value)[1]
    /\ Store(Outcome(game, player_id, action, value, "engine"))

EngineNext ==
    \E player_id \in {game.player1_id, game.player2_id}, value \in Values :
        \/ Apply(player_id, SLAP, value)
        \/ Apply(player_id, GUESS, value)
        \/ Apply(player_id, CLUB, None)
        \/ Apply(player_id, FLINCH, None)

\* The sequences of validated applies from a new session.
EngineSpec == Init /\ [][EngineNext]_vars

\* ================================================================ claims

\* Vocabulary of the claims: the seats and their fields.
SeatA(g) == g.player1_id
SeatB(g) == g.player2_id
OtherSeat(g, seat) == IF seat = g.player1_id THEN g.player2_id ELSE g.player1_id
HpOf(g, seat) == IF seat = g.player1_id THEN g.player1_hp ELSE g.player2_hp
ClubsOf(g, seat) == IF seat = g.player1_id THEN g.player1_clubs ELSE g.player2_clubs
FlinchesOf(g, seat) ==
    IF seat = g.player1_id THEN g.player1_flinches ELSE g.player2_flinches
CommitOf(g, seat) == IF seat = g.player1_id THEN g.player1_slap ELSE g.player2_slap
ChoosingPhase(g, seat) ==
    IF seat = g.player1_id THEN PLAYER1_CHOOSE_SLAP ELSE PLAYER2_CHOOSE_SLAP
GuessingPhase(g, seat) ==
    IF seat = g.player1_id THEN PLAYER1_GUESS ELSE PLAYER2_GUESS
Terminal(g) == g.state \in {GAME_END, TIMED_OUT}
KnockedOut(g) == g.player1_hp <= 0 \/ g.player2_hp <= 0

\* The damage table of the specification, by diff = |committed - guessed|:
\* <<damage to the committing seat, damage to the guessing seat>>.
DamageTable(diff) ==
    CASE diff = 0 -> <<1, 1>>
      [] diff = 1 -> <<2, 0>>
      [] diff = 2 -> <<3, 0>>

\* The last step applied `action` (validated, or chosen by make_ai_move).
Did(action) == last.action = action

\* C1: for every committed c and guessed g in {1,2,3}, calculate_damage(c, g)
\* is the table entry for |c - g|, which is 0, 1 or 2; and every guess that
\* is applied was computed from such a c and g with that result.
C1_DamageTable ==
    /\ \A c \in 1..3, g \in 1..3 :
          /\ Abs(c - g) \in 0..2
          /\ calculate_damage(c, g) = DamageTable(Abs(c - g))
    /\ Did(GUESS) =>
          /\ last.slap_count \in 1..3
          /\ last.value \in 1..3
          /\ <<last.damage, last.counter_damage>>
                = DamageTable(Abs(last.slap_count - last.value))

\* C1 witness: a guess two away from the commit has been applied, damage 3.
C1_Witness ==
    /\ Did(GUESS)
    /\ Abs(last.slap_count - last.value) = 2
    /\ last.damage = 3
    /\ last.counter_damage = 0

\* C2: a Guess by seat X with value g against the opponent's pending commit c
\* lowers the opponent's HP by the table damage and X's HP by the
\* self-counter damage for |c - g|, and changes no club or flinch counter;
\* from 20/20, A commits 2 and B guesses 1 gives A 18 and B 20.
C2_GuessDamage ==
    Did(GUESS) =>
        LET b == last.before
            X == last.player_id
            O == OtherSeat(b, X)
            c == CommitOf(b, O)
            t == DamageTable(Abs(c - last.value))
        IN  /\ c \in 1..3
            /\ HpOf(game, O) = HpOf(b, O) - t[1]
            /\ HpOf(game, X) = HpOf(b, X) - t[2]
            /\ game.player1_clubs = b.player1_clubs
            /\ game.player2_clubs = b.player2_clubs
            /\ game.player1_flinches = b.player1_flinches
            /\ game.player2_flinches = b.player2_flinches
            /\ (/\ b.player1_hp = 20 /\ b.player2_hp = 20
                /\ X = SeatB(b) /\ c = 2 /\ last.value = 1)
               => (game.player1_hp = 18 /\ game.player2_hp = 20)

\* C2 witness: the scenario itself, from 20/20 A committed 2 and B guessed 1.
C2_Witness ==
    /\ Did(GUESS)
    /\ last.before.player1_hp = 20 /\ last.before.player2_hp = 20
    /\ last.player_id = SeatB(game)
    /\ last.before.player1_slap = 2 /\ last.value = 1
    /\ game.player1_hp = 18 /\ game.player2_hp = 20

\* C3: after a Guess, phase is Ended iff some seat's HP is <= 0 after the
\* damage or roundNumber (before any increment) has reached TOTAL_ROUNDS;
\* otherwise phase is a 'choosing a commit' phase.
C3_GuessEnds ==
    Did(GUESS) =>
        /\ game.state = GAME_END
              <=> (KnockedOut(game) \/ last.before.round_number >= TOTAL_ROUNDS)
        /\ game.state # GAME_END
              => game.state \in {PLAYER1_CHOOSE_SLAP, PLAYER2_CHOOSE_SLAP}

\* C3 witness: a guess knocked a seat out before the last round.
C3_Witness ==
    /\ Did(GUESS)
    /\ game.state = GAME_END
    /\ KnockedOut(game)
    /\ last.before.round_number < TOTAL_ROUNDS

\* C4: a Guess that does not end the game increases roundNumber by exactly 1
\* and leaves both pending commits unset; nothing else changes roundNumber.
C4_RoundCounter ==
    /\ (Did(GUESS) /\ game.state # GAME_END) =>
          /\ game.round_number = last.before.round_number + 1
          /\ game.player1_slap = None
          /\ game.player2_slap = None
    /\ ~(Did(GUESS) /\ game.state # GAME_END) =>
          game.round_number = last.before.round_number

\* C4 witness: a guess moved the game from round 2 to round 3.
C4_Witness ==
    /\ Did(GUESS)
    /\ game.state # GAME_END
    /\ last.before.round_number = 2
    /\ game.round_number = 3

\* C5: after a Guess that does not end the game, the parity of the new
\* roundNumber decides who commits: odd -> seat A, even -> seat B.
C5_ParityAlternation ==
    (Did(GUESS) /\ game.state # GAME_END) =>
        IF game.round_number % 2 = 1
        THEN game.state = PLAYER1_CHOOSE_SLAP /\ game.current_turn = SeatA(game)
        ELSE game.state = PLAYER2_CHOOSE_SLAP /\ game.current_turn = SeatB(game)

\* C5 witness: seat A guessed in round 2 and, round 3 being odd, commits next.
C5_Witness ==
    /\ Did(GUESS)
    /\ last.player_id = SeatA(game)
    /\ game.round_number = 3
    /\ game.state = PLAYER1_CHOOSE_SLAP
    /\ game.current_turn = SeatA(game)

\* C6 as claimed: after any apply (Commit, Guess, Club or Flinch) that leaves
\* the phase non-terminal, currentTurn is the seat that did not just act.
C6_AsClaimed ==
    (last.action \in ActionType /\ ~Terminal(game)) =>
        game.current_turn = OtherSeat(last.before, last.player_id)

\* C6 amended: after any Commit, Club or Flinch that leaves the phase
\* non-terminal, currentTurn is the seat that did not just act.
C6_TurnHandedOver ==
    (last.action \in {SLAP, CLUB, FLINCH} /\ ~Terminal(game)) =>
        game.current_turn = OtherSeat(last.before, last.player_id)

\* C6 witness: seat B flinched and the turn went to seat A.
C6_Witness ==
    /\ Did(FLINCH)
    /\ last.player_id = SeatB(game)
    /\ ~Terminal(game)
    /\ game.current_turn = SeatA(game)

\* C7: a Club by seat X adds 1 to X's club count, takes CLUB_DAMAGE from the
\* opponent's HP, leaves X's HP, both flinch counts, the opponent's club
\* count and roundNumber alone, and sets phase to Ended if some HP is then
\* <= 0, otherwise to the opponent's 'choosing a commit' phase with
\* currentTurn = opponent; from 20 HP and 0 clubs, club damage 4: 16 and 1.
C7_Club ==
    Did(CLUB) =>
        LET b == last.before
            X == last.player_id
            O == OtherSeat(b, X)
        IN  /\ ClubsOf(game, X) = ClubsOf(b, X) + 1
            /\ HpOf(game, O) = HpOf(b, O) - CLUB_DAMAGE
            /\ HpOf(game, X) = HpOf(b, X)
            /\ game.player1_flinches = b.player1_flinches
            /\ game.player2_flinches = b.player2_flinches
            /\ ClubsOf(game, O) = ClubsOf(b, O)
            /\ game.round_number = b.round_number
            /\ IF KnockedOut(game)
               THEN game.state = GAME_END
               ELSE game.state = ChoosingPhase(b, O) /\ game.current_turn = O
            /\ (X = SeatA(b) /\ b.player2_hp = 20 /\ b.player1_clubs = 0)
               => (game.player2_hp = 16 /\ game.player1_clubs = 1)

\* C7 witness: the scenario, seat A's first club in round 1 against 20 HP.
C7_Witness ==
    /\ Did(CLUB)
    /\ last.player_id = SeatA(game)
    /\ last.before.state = PLAYER1_CHOOSE_SLAP
    /\ last.before.player2_hp = 20 /\ game.player2_hp = 16
    /\ last.before.player1_clubs = 0 /\ game.player1_clubs = 1
    /\ game.round_number = 1
    /\ game.state = PLAYER2_CHOOSE_SLAP

\* C8: a Flinch by seat X adds 1 to X's flinch count, takes FLINCH_DAMAGE
\* from the opponent's HP, leaves X's HP, both club counts and roundNumber
\* alone, and sets phase to Ended if some HP is then <= 0, otherwise to the
\* opponent's 'choosing a commit' phase with currentTurn = opponent.
C8_Flinch ==
    Did(FLINCH) =>
        LET b == last.before
            X == last.player_id
            O == OtherSeat(b, X)
        IN  /\ b.state = GuessingPhase(b, X)
            /\ FlinchesOf(game, X) = FlinchesOf(b, X) + 1
            /\ HpOf(game, O) = HpOf(b, O) - FLINCH_DAMAGE
            /\ HpOf(game, X) = HpOf(b, X)
            /\ game.player1_clubs = b.player1_clubs
            /\ game.player2_clubs = b.player2_clubs
            /\ game.round_number = b.round_number
            /\ IF KnockedOut(game)
               THEN game.state = GAME_END
               ELSE game.state = ChoosingPhase(b, O) /\ game.current_turn = O

\* C8 witness: seat A flinched as its second flinch and knocked seat B out.
C8_Witness ==
    /\ Did(FLINCH)
    /\ last.player_id = SeatA(game)
    /\ game.player1_flinches = 2
    /\ game.player2_hp = 0
    /\ game.state = GAME_END

\* C9: a Commit by seat X with value v stores v as X's pending commit, sets
\* phase to 'opponent guesses' and currentTurn to the opponent, and leaves
\* both HP, all club and flinch counters, roundNumber and the opponent's
\* pending commit alone.
C9_Commit ==
    Did(SLAP) =>
        LET b == last.before
            X == last.player_id
            O == OtherSeat(b, X)
        IN  /\ last.value \in 1..3
            /\ CommitOf(game, X) = last.value
            /\ game.state = GuessingPhase(b, O)
            /\ game.current_turn = O
            /\ game.player1_hp = b.player1_hp
            /\ game.player2_hp = b.player2_hp
            /\ game.player1_clubs = b.player1_clubs
            /\ game.player2_clubs = b.player2_clubs
            /\ game.player1_flinches = b.player1_flinches
            /\ game.player2_flinches = b.player2_flinches
            /\ game.round_number = b.round_number
            /\ CommitOf(game, O) = CommitOf(b, O)

\* C9 witness: seat B committed 3 in round 2, seat A is to guess.
C9_Witness ==
    /\ Did(SLAP)
    /\ last.player_id = SeatB(game)
    /\ last.value = 3
    /\ game.player2_slap = 3
    /\ game.round_number = 2
    /\ game.state = PLAYER1_GUESS
    /\ game.current_turn = SeatA(game)

\* C10: each seat's club count is within 0..MAX_CLUBS and each seat's flinch
\* count within 0..MAX_FLINCHES, and no step (a validated apply or a move of
\* the scripted opponent) decreases any of them.
C10_CountersBounded ==
    /\ game.player1_clubs \in 0..MAX_CLUBS
    /\ game.player2_clubs \in 0..MAX_CLUBS
    /\ game.player1_flinches \in 0..MAX_FLINCHES
    /\ game.player2_flinches \in 0..MAX_FLINCHES
    /\ game.player1_clubs >= last.before.player1_clubs
    /\ game.player2_clubs >= last.before.player2_clubs
    /\ game.player1_flinches >= last.before.player1_flinches
    /\ game.player2_flinches >= last.before.player2_flinches

\* C10 witness: every counter is at its maximum, the last of them raised by
\* a club of the scripted opponent, and the game goes on.
C10_Witness ==
    /\ game.player1_clubs = MAX_CLUBS
    /\ game.player2_clubs = MAX_CLUBS
    /\ game.player1_flinches = MAX_FLINCHES
    /\ game.player2_flinches = MAX_FLINCHES
    /\ Did(CLUB)
    /\ last.by = "ai"
    /\ ~Terminal(game)

\* ------------------------------------------------------- validation claims
\* The rejection reasons of the specification, by the message is_valid_move
\* returns.
Reason(message) ==
    CASE message = "It's not your turn!" -> "NotYourTurn"
      [] message = "You're not in this game!" -> "NotInSession"
      [] message \in {"Slap count must be 1, 2, or 3!",
                      "Guess must be 1, 2, or 3!"} -> "BadValue"
      [] message \in {"It's not your turn to slap!",
                      "It's not your turn to guess!",
                      "You can only use club when it's your turn to slap!",
                      "You can only use flinch when it's your turn to guess!"}
           -> "WrongPhase"
      [] message \in {"You've used all your clubs for this game!",
                      "You've used all your flinches for this game!"}
           -> "Exhausted"
      [] OTHER -> "none"

\* What validation answers to a press: "ok", or the reason of the rejection.
Verdict(g, player_id, action, value) ==
    LET r == is_valid_move(g, player_id, action, value)
    IN  IF r[1] THEN "ok" ELSE Reason(r[2])

\* The presses the four handlers validate: a commit or a guess with its
\* number, a club or a flinch with no value.
Presses ==
    {<<SLAP, value>> : value \in Values} \cup {<<GUESS, value>> : value \in Values}
        \cup {<<CLUB, None>>, <<FLINCH, None>>}

\* A rejected press is on record: its alert is the last thing that happened.
Alerted == alert.message # "none"

\* C11: in any phase, an action whose actor does not hold the turn is
\* rejected with NotYourTurn, whatever the action and its value; a recorded
\* rejection of such a press carries that reason.
C11_NotYourTurn ==
    /\ \A player_id \in Users, press \in Presses :
          player_id # game.current_turn
              => Verdict(game, player_id, press[1], press[2]) = "NotYourTurn"
    /\ Progress(game) = 0
          => \A state \in GameState, player_id \in Users, press \in Presses :
                player_id # game.current_turn
                    => Verdict([game EXCEPT !.state = state],
                               player_id, press[1], press[2]) = "NotYourTurn"
    /\ (Alerted /\ alert.user_id # alert.before.current_turn)
          => Reason(alert.message) = "NotYourTurn"

\* C11 witness: the first seat pressed a well-formed guess while the second
\* seat held the turn, and was told it is not its turn.
C11_Witness ==
    /\ Alerted
    /\ alert.user_id = SeatA(game)
    /\ game.current_turn = SeatB(game)
    /\ game.player2_id # None
    /\ alert.action = GUESS
    /\ alert.value \in {1, 2, 3}
    /\ alert.message = "It's not your turn!"

\* C12 as claimed: every press by an actor who is not one of the two seats
\* is rejected with NotInSession.
C12_AsClaimed ==
    \A player_id \in Users, press \in Presses :
        player_id \notin {SeatA(game), SeatB(game)}
            => Verdict(game, player_id, press[1], press[2]) = "NotInSession"

\* C13: for the turn holder, a commit is rejected with BadValue when the
\* value is not 1, 2 or 3, otherwise with WrongPhase unless the phase is the
\* actor's own choosing phase, and is accepted otherwise.
C13_CommitValidation ==
    /\ \A player_id \in Users, value \in Values :
          player_id = game.current_turn
              => Verdict(game, player_id, SLAP, value)
                   = IF value \notin {1, 2, 3} THEN "BadValue"
                     ELSE IF game.state # ChoosingPhase(game, player_id)
                     THEN "WrongPhase"
                     ELSE "ok"
    /\ Did(SLAP) /\ last.by = "handler"
          => /\ last.value \in {1, 2, 3}
             /\ last.before.state = ChoosingPhase(last.before, last.player_id)

\* C13 witness: the turn holder pressed a well-formed commit in its guessing
\* phase and was rejected with WrongPhase.
C13_Witness ==
    /\ Alerted
    /\ alert.action = SLAP
    /\ alert.user_id = game.current_turn
    /\ alert.value \in {1, 2, 3}
    /\ game.state = GuessingPhase(game, alert.user_id)
    /\ Reason(alert.message) = "WrongPhase"

\* C14: for the turn holder, a guess is rejected with BadValue when the
\* value is not 1, 2 or 3, otherwise with WrongPhase unless the phase is the
\* actor's own guessing phase, and is accepted otherwise.
C14_GuessValidation ==
    /\ \A player_id \in Users, value \in Values :
          player_id = game.current_turn
              => Verdict(game, player_id, GUESS, value)
                   = IF value \notin {1, 2, 3} THEN "BadValue"
                     ELSE IF game.state # GuessingPhase(game, player_id)
                     THEN "WrongPhase"
                     ELSE "ok"
    /\ Did(GUESS) /\ last.by = "handler"
          => /\ last.value \in {1, 2, 3}
             /\ last.before.state = GuessingPhase(last.before, last.player_id)

\* C14 witness: the turn holder pressed a guess of a value outside 1..3 in
\* its own guessing phase and was rejected with BadValue.
C14_Witness ==
    /\ Alerted
    /\ alert.action = GUESS
    /\ alert.user_id = game.current_turn
    /\ alert.value \notin {1, 2, 3}
    /\ game.state = GuessingPhase(game, alert.user_id)
    /\ Reason(alert.message) = "BadValue"

\* C15: for the turn holder, a club is rejected with Exhausted when the actor
\* has already used MAX_CLUBS clubs, whatever the phase, otherwise with
\* WrongPhase unless the phase is a choosing phase; a seat that has used
\* MAX_CLUBS clubs never applies another.
C15_ClubValidation ==
    /\ \A player_id \in Users :
          player_id = game.current_turn
              => Verdict(game, player_id, CLUB, None)
                   = IF ClubsOf(game, player_id) >= MAX_CLUBS THEN "Exhausted"
                     ELSE IF game.state \notin {PLAYER1_CHOOSE_SLAP,
                                                PLAYER2_CHOOSE_SLAP}
                     THEN "WrongPhase"
                     ELSE "ok"
    /\ Did(CLUB) /\ last.by = "handler"
          => /\ ClubsOf(last.before, last.player_id) < MAX_CLUBS
             /\ last.before.state \in {PLAYER1_CHOOSE_SLAP, PLAYER2_CHOOSE_SLAP}

\* C15 witness: the turn holder, both clubs used, pressed club in a guessing
\* phase and was rejected with Exhausted rather than WrongPhase.
C15_Witness ==
    /\ Alerted
    /\ alert.action = CLUB
    /\ alert.user_id = game.current_turn
    /\ ClubsOf(game, alert.user_id) = MAX_CLUBS
    /\ game.state \in {PLAYER1_GUESS, PLAYER2_GUESS}
    /\ Reason(alert.message) = "Exhausted"

\* C16: for the turn holder, a flinch is rejected with Exhausted when the
\* actor has already used MAX_FLINCHES flinches, whatever the phase,
\* otherwise with WrongPhase unless the phase is a guessing phase; a seat
\* that has used MAX_FLINCHES flinches never applies another.
C16_FlinchValidation ==
    /\ \A player_id \in Users :
          player_id = game.current_turn
              => Verdict(game, player_id, FLINCH, None)
                   = IF FlinchesOf(game, player_id) >= MAX_FLINCHES
                     THEN "Exhausted"
                     ELSE IF game.state \notin {PLAYER1_GUESS, PLAYER2_GUESS}
                     THEN "WrongPhase"
                     ELSE "ok"
    /\ Did(FLINCH) /\ last.by = "handler"
          => /\ FlinchesOf(last.before, last.player_id) < MAX_FLINCHES
             /\ last.before.state \in {PLAYER1_GUESS, PLAYER2_GUESS}

\* C16 witness: the turn holder, both flinches used, pressed flinch in a
\* choosing phase and was rejected with Exhausted rather than WrongPhase.
C16_Witness ==
    /\ Alerted
    /\ alert.action = FLINCH
    /\ alert.user_id = game.current_turn
    /\ FlinchesOf(game, alert.user_id) = MAX_FLINCHES
    /\ game.state \in {PLAYER1_CHOOSE_SLAP, PLAYER2_CHOOSE_SLAP}
    /\ Reason(alert.message) = "Exhausted"

\* C17: validation runs before an action is applied; a rejected action
\* leaves the session and its action rows exactly as they were, and every
\* action a handler applied had passed validation in the state it was
\* applied to.
C17_RejectedChangesNothing ==
    /\ Alerted
          => /\ game = alert.before
             /\ game_actions = alert.rows_before
             /\ ~is_valid_move(alert.before, alert.user_id,
                                alert.action, alert.value)[1]
    /\ (last.by = "handler" /\ last.action \in ActionType)
          => is_valid_move(last.before, last.player_id,
                           last.action, last.value)[1]

\* C17 witness: in a session already under way, a press was rejected as
\* Exhausted, and the session still shows the move applied before it.
C17_Witness ==
    /\ Alerted
    /\ Reason(alert.message) = "Exhausted"
    /\ last.action \in ActionType
    /\ game_actions # <<>>
    /\ game = alert.before

\* C18: in a terminal state (game_end, timed_out) every press by every user
\* is rejected and make_ai_move has no move, so nothing is ever applied to a
\* terminal session; the same holds of any session once the sweep has
\* marked it timed_out.
C18_TerminalAbsorbing ==
    /\ \A g \in {game, timed_out(game)} :
          Terminal(g)
              => /\ \A player_id \in Users, press \in Presses :
                       ~is_valid_move(g, player_id, press[1], press[2])[1]
                 /\ ai_moves(g) = {}
    /\ last.action # "none" => ~Terminal(last.before)

\* C18 witness: the first seat's club ended the game; the second seat holds
\* the turn with clubs left, and its club is rejected.
C18_Witness ==
    /\ game.state = GAME_END
    /\ Did(CLUB)
    /\ last.player_id = SeatA(game)
    /\ game.player2_id # None
    /\ game.current_turn = SeatB(game)
    /\ ClubsOf(game, SeatB(game)) < MAX_CLUBS
    /\ Verdict(game, SeatB(game), CLUB, None) = "WrongPhase"

\* C19 as claimed: a seat's commit is set exactly while the other seat is
\* in its guessing phase, and is unset in every other state.
C19_AsClaimed ==
    \A seat \in {SeatA(game), SeatB(game)} :
        CommitOf(game, seat) # None
            <=> game.state = GuessingPhase(game, OtherSeat(game, seat))

\* C20: the round counter is at least 1, and in every non-terminal state it
\* is at most TOTAL_ROUNDS.
C20_RoundBounds ==
    /\ game.round_number >= 1
    /\ ~Terminal(game) => game.round_number <= TOTAL_ROUNDS

\* C20 witness: the last round is being played: the counter has reached
\* TOTAL_ROUNDS after a guess and the session is not over.
C20_Witness ==
    /\ ~Terminal(game)
    /\ game.round_number = TOTAL_ROUNDS
    /\ Did(GUESS)
    /\ last.before.round_number = TOTAL_ROUNDS - 1

\* ------------------------------------------------------------ later claims
\* The session is one against the scripted opponent: seat B has no occupant.
Unbound(g) == g.player2_id = None

\* C21: in every non-terminal state current_turn is the id of exactly one
\* of the two seats, also when seat B has no occupant (its id is None).
C21_TurnIsASeat ==
    ~Terminal(game)
        => /\ game.current_turn \in {SeatA(game), SeatB(game)}
           /\ SeatA(game) # SeatB(game)

\* C21 witness: in a session against the scripted opponent, seat A's commit
\* has handed the turn to the unoccupied seat B.
C21_Witness ==
    /\ Unbound(game)
    /\ ~Terminal(game)
    /\ Did(SLAP)
    /\ last.player_id = SeatA(game)
    /\ game.current_turn = SeatB(game)
    /\ game.current_turn # SeatA(game)

\* What determine_winner answers, in the words of the specification.
Result(g) ==
    LET r == determine_winner(g)
    IN  IF r[2].format = "Game is not over yet" /\ r[1] = None THEN "NotOverYet"
        ELSE IF r[2].format = "It's a draw!" /\ r[1] = None THEN "draw"
        ELSE IF r[1] = g.player1_id /\ r[2].player_id = g.player1_id
        THEN "seatA-wins"
        ELSE IF r[1] = g.player2_id /\ r[2].player_id = g.player2_id
        THEN "seatB-wins"
        ELSE "other"

\* The result the specification fixes for the HP values hp1 of seat A and
\* hp2 of seat B.
Fixed(hp1, hp2) ==
    CASE hp1 <= 0 /\ hp2 <= 0 -> "draw"
      [] hp1 <= 0 /\ hp2 > 0 -> "seatB-wins"
      [] hp2 <= 0 /\ hp1 > 0 -> "seatA-wins"
      [] hp1 > 0 /\ hp2 > 0 /\ hp1 > hp2 -> "seatA-wins"
      [] hp1 > 0 /\ hp2 > 0 /\ hp2 > hp1 -> "seatB-wins"
      [] hp1 > 0 /\ hp2 > 0 /\ hp1 = hp2 -> "draw"

\* The HP values a seat can have: from MAX_HP down to the lowest value a
\* club can leave.
HpRange == (1 - CLUB_DAMAGE)..MAX_HP

\* C22: on a session in game_end determine_winner gives the one result
\* fixed by the two HP values; checked on every reachable ended session,
\* and on the new sessions put into game_end with each pair of HP values.
C22_Outcome ==
    /\ game.state = GAME_END
          => Result(game) = Fixed(game.player1_hp, game.player2_hp)
    /\ last.action = "none"
          => \A hp1 \in HpRange, hp2 \in HpRange :
                Result([game EXCEPT !.state = GAME_END, !.player1_hp = hp1,
                                    !.player2_hp = hp2]) = Fixed(hp1, hp2)

\* C22 witness: a game ended by the round limit with both seats standing
\* on equal HP: a draw.
C22_Witness ==
    /\ game.state = GAME_END
    /\ Did(GUESS)
    /\ game.round_number = TOTAL_ROUNDS
    /\ game.player1_hp > 0
    /\ game.player1_hp = game.player2_hp
    /\ Result(game) = "draw"

\* C23: on a session in any state other than game_end determine_winner
\* answers "Game is not over yet" with no winner, whatever the HP values;
\* checked on every reachable session put into each of the other states.
C23_NotOverYet ==
    \A state \in GameState \ {GAME_END} :
        determine_winner([game EXCEPT !.state = state])
            = <<None, Message("Game is not over yet", None)>>

\* C23 witness: a running session in which seat B is ahead on HP.
C23_Witness ==
    /\ ~Terminal(game)
    /\ game.player1_hp < game.player2_hp
    /\ game.round_number > 1
    /\ Result(game) = "NotOverYet"

\* C24 as claimed: check_game_timeout answers true exactly when the age of
\* the row is strictly greater than GAME_TIMEOUT.
C24_AsClaimed ==
    check_game_timeout(idle) = IF idle > GAME_TIMEOUT THEN "True" ELSE "False"

\* C25 as claimed: in a session whose seat B has no occupant, make_ai_move
\* returns in player2_choose_slap the game after a club of seat B (clubs
\* remaining) or after a commit of seat B of 1, 2 or 3, and in
\* player2_guess the game after a flinch of seat B (flinches remaining) or
\* after a guess of seat B of 1, 2 or 3.
C25_AsClaimed ==
    /\ (Unbound(game) /\ game.state = PLAYER2_CHOOSE_SLAP)
          => {r.game : r \in make_ai_move(game)}
               \subseteq
                 (IF game.player2_clubs < MAX_CLUBS
                  THEN {process_club(game, SeatB(game))} ELSE {})
                 \cup {process_slap(game, SeatB(game), value) : value \in 1..3}
    /\ (Unbound(game) /\ game.state = PLAYER2_GUESS)
          => {r.game : r \in make_ai_move(game)}
               \subseteq
                 (IF game.player2_flinches < MAX_FLINCHES
                  THEN {process_flinch(game, SeatB(game))} ELSE {})
                 \cup {process_guess(game, SeatB(game), value) : value \in 1..3}

\* C26: one invocation of make_ai_move applies at most one action, and
\* every move it can pick is one is_valid_move accepts for seat B in the
\* game it is invoked on.
C26_AiMoveLegal ==
    /\ \A m \in ai_moves(game) :
          is_valid_move(game, game.player2_id, m[1], m[2])[1]
    /\ last.by = "ai"
          => /\ last.player_id = last.before.player2_id
             /\ is_valid_move(last.before, last.player_id,
                               last.action, last.value)[1]
             /\ LET o == Outcome(last.before, last.player_id,
                                 last.action, last.value, "ai")
                IN  game = o.game /\ game_actions = o.rows

\* C26 witness: make_ai_move has just applied seat B's last flinch.
C26_Witness ==
    /\ last.by = "ai"
    /\ Did(FLINCH)
    /\ FlinchesOf(last.before, last.player_id) = MAX_FLINCHES - 1
    /\ FlinchesOf(game, last.player_id) = MAX_FLINCHES

\* C27: in every state other than player2_choose_slap and player2_guess
\* make_ai_move returns the game with every field unchanged and logs no
\* row; checked on every reachable session put into each of those states.
C27_AiNoOp ==
    /\ \A state \in GameState \ {PLAYER2_CHOOSE_SLAP, PLAYER2_GUESS} :
          LET g == [game EXCEPT !.state = state]
          IN  make_ai_move(g) = {[game |-> g, rows |-> <<>>]}
    /\ last.by = "ai"
          => last.before.state \in {PLAYER2_CHOOSE_SLAP, PLAYER2_GUESS}

\* C27 witness: seat B has an occupant and clubs left, make_ai_move has
\* just moved for it, and in seat A's guessing phase it has nothing to do.
C27_Witness ==
    /\ ~Unbound(game)
    /\ last.by = "ai"
    /\ game.state = PLAYER1_GUESS
    /\ game.player2_clubs < MAX_CLUBS
    /\ make_ai_move(game) = {[game |-> game, rows |-> <<>>]}

\* The rows the last apply logged under its own action type.
OwnRows ==
    {i \in DOMAIN game_actions :
        /\ game_actions[i].action_type = last.action
        /\ game_actions[i].player_id = last.player_id}

\* C28: every apply of a commit, guess, club or flinch logs one row with
\* the acting seat, the action type, the value (commit, guess), the damage
\* dealt to the opponent (guess, club, flinch) and the round number the
\* action was taken in, before any increment by that action.
C28_ActionRecord ==
    last.action \in ActionType
        => /\ Cardinality(OwnRows) = 1
           /\ \A i \in OwnRows :
                LET row == game_actions[i]
                    opponent == OtherSeat(last.before, last.player_id)
                IN  /\ row.round_number = last.before.round_number
                    /\ Did(SLAP) => row.slap_count = last.value
                    /\ Did(GUESS) => row.guess_count = last.value
                    /\ last.action \in {GUESS, CLUB, FLINCH}
                          => row.damage = HpOf(last.before, opponent)
                                            - HpOf(game, opponent)

\* C28 witness: a guess that hurt the opponent and moved the session to the
\* next round; its row carries the round it was made in.
C28_Witness ==
    /\ Did(GUESS)
    /\ game.round_number = last.before.round_number + 1
    /\ \E i \in OwnRows :
          /\ game_actions[i].round_number = last.before.round_number
          /\ game_actions[i].damage > 0

\* C29 as claimed: a non-terminal session left alone for longer than
\* GAME_TIMEOUT is eventually set to timed_out by the sweep (or a press
\* refreshes the row).
C29_AsClaimed ==
    (~Terminal(game) /\ idle > GAME_TIMEOUT)
        ~> (game.state = TIMED_OUT \/ idle <= GAME_TIMEOUT)

\* C30 as claimed: in a session whose seat B has no occupant, once the turn
\* is with seat B in a running session, eventually the turn is back with
\* seat A or the session is over.
C30_AsClaimed ==
    (Unbound(game) /\ ~Terminal(game) /\ game.current_turn = SeatB(game))
        ~> (game.current_turn = SeatA(game) \/ Terminal(game))

\* ------------------------------------------------------------------- C31

\* end_game has run on the stored session: determine_winner was called on
\* it and its result kept.
EndGameRan == result # NoResult /\ result = determine_winner(game)

PhaseSeat(g) ==
    IF g.state \in {PLAYER1_CHOOSE_SLAP, PLAYER1_GUESS} THEN SeatA(g) ELSE SeatB(g)

\* C33: in every non-terminal state current_turn is the seat named by the
\* phase, and a Club was applied only for the seat whose choosing phase it
\* was, a Flinch only for the seat whose guessing phase it was.
C33_TurnMatchesPhase ==
    /\ ~Terminal(game) => game.current_turn = PhaseSeat(game)
    /\ Did(CLUB) => /\ last.player_id = PhaseSeat(last.before)
                    /\ last.before.state = ChoosingPhase(last.before, last.player_id)
    /\ Did(FLINCH) => /\ last.player_id = PhaseSeat(last.before)
                      /\ last.before.state = GuessingPhase(last.before, last.player_id)

\* Seat B used a Flinch in its own guessing phase and the phase that
\* follows names the seat that now holds the turn.
C33_Witness ==
    /\ Did(FLINCH)
    /\ last.player_id = SeatB(game)
    /\ last.before.state = PLAYER2_GUESS
    /\ ~Terminal(game)
    /\ game.current_turn = PhaseSeat(game)

\* ------------------------------------------------------------------- C34

\* C34: whenever the session is in a seat's guessing phase, the step that
\* led there was the opponent's commit, and the field process_guess reads
\* for that seat's guess holds that commit, a value in {1,2,3}.
C34_CommitSetForGuess ==
    \A seat \in {SeatA(game), SeatB(game)} :
        game.state = GuessingPhase(game, seat)
            => /\ Did(SLAP)
               /\ last.player_id = OtherSeat(game, seat)
               /\ guessed_slap(game, seat) = last.value
               /\ CommitOf(game, OtherSeat(game, seat)) = last.value
               /\ last.value \in 1..3
               /\ ~guess_raises(game, seat)

\* Seat A is to guess seat B's fresh commit while seat A's own commit of an
\* earlier phase, a different value, is still stored.
C34_Witness ==
    /\ game.state = PLAYER1_GUESS
    /\ Did(SLAP)
    /\ game.player2_slap = last.value
    /\ game.player1_slap \in 1..3
    /\ game.player1_slap # game.player2_slap

\* ------------------------------------------------------------------- C35

\* C35: in every non-terminal state both seats have at least 1 HP, and a
\* step that brings a seat's HP to 0 or below is a Guess, Club or Flinch
\* that leaves the session in game_end.
C35_AliveUntilEnded ==
    /\ ~Terminal(game) => (game.player1_hp >= 1 /\ game.player2_hp >= 1)
    /\ (KnockedOut(game) /\ ~KnockedOut(last.before))
          => /\ game.state = GAME_END
             /\ last.action \in {GUESS, CLUB, FLINCH}

\* A Flinch took the opponent's last HP, to exactly 0, and ended the game.
C35_Witness ==
    /\ Did(FLINCH)
    /\ HpOf(last.before, OtherSeat(game, last.player_id)) = FLINCH_DAMAGE
    /\ HpOf(game, OtherSeat(game, last.player_id)) = 0
    /\ game.state = GAME_END

\* ------------------------------------------------------------------- C36

\* The most applies a game can take: a commit and a guess per round, the
\* Clubs of both seats, and for each Flinch the commit it discards.
MaxApplies == 2 * TOTAL_ROUNDS + 2 * MAX_CLUBS + 2 * (2 * MAX_FLINCHES)

\* The counts of a game are within their limits, and unless the session is
\* in game_end is_valid_move accepts a Commit or a Guess from the seat that
\* holds the turn, so the sequence of applies can go on.
WithinLimits ==
    /\ applies <= MaxApplies
    /\ game.round_number <= TOTAL_ROUNDS
    /\ game.player1_clubs <= MAX_CLUBS /\ game.player2_clubs <= MAX_CLUBS
    /\ game.player1_flinches <= MAX_FLINCHES
    /\ game.player2_flinches <= MAX_FLINCHES
    /\ game.state # GAME_END
          => \E value \in 1..3 :
                \/ is_valid_move(game, game.current_turn, SLAP, value)[1]
                \/ is_valid_move(game, game.current_turn, GUESS, value)[1]

\* C36: every sequence of validated applies from a new session is finite
\* and can only stop in game_end.  Each step is one more apply, of which
\* there are never more than MaxApplies; a guess ends the game or starts
\* the next of the TOTAL_ROUNDS rounds and no other apply changes the
\* round, so at most TOTAL_ROUNDS guesses are applied; each seat applies at
\* most MAX_CLUBS Clubs and MAX_FLINCHES Flinches; and a session that is not
\* in game_end always has a validated apply left.
C36_Terminates ==
    [][/\ WithinLimits /\ WithinLimits'
       /\ applies' = applies + 1
       /\ IF last'.action = GUESS
          THEN \/ game'.state = GAME_END
               \/ game'.round_number = game.round_number + 1
          ELSE game'.round_number = game.round_number]_vars

\* A game that took all MaxApplies applies and ended with the last of them.
C36_Witness ==
    /\ game.state = GAME_END
    /\ applies = MaxApplies
    /\ game.round_number = TOTAL_ROUNDS

\* ------------------------------------------------------------------- C37

\* C37: in every non-terminal state of a session with both seats occupied,
\* is_valid_move accepts a Commit or a Guess with some value in {1,2,3}
\* from the seat that holds the turn.
C37_TurnHolderCanMove ==
    (~Unbound(game) /\ ~Terminal(game))
        => \E value \in 1..3 :
              \/ is_valid_move(game, game.current_turn, SLAP, value)[1]
              \/ is_valid_move(game, game.current_turn, GUESS, value)[1]

\* The seat holding the turn has used all its Clubs and Flinches, and a
\* Guess is what is_valid_move still accepts from it.
C37_Witness ==
    /\ ~Unbound(game)
    /\ ~Terminal(game)
    /\ ClubsOf(game, game.current_turn) = MAX_CLUBS
    /\ FlinchesOf(game, game.current_turn) = MAX_FLINCHES
    /\ is_valid_move(game, game.current_turn, GUESS, 1)[1]
    /\ ~is_valid_move(game, game.current_turn, FLINCH, None)[1]

\* ------------------------------------------------------------------- C38

\* C38: no reachable state has both seats at 0 HP or below.
C38_NoDoubleKnockout ==
    ~(game.player1_hp <= 0 /\ game.player2_hp <= 0)

\* An exact guess took 1 HP from both seats and ended the game by knocking
\* out one of them while the other stays above 0.
C38_Witness ==
    /\ Did(GUESS)
    /\ game.state = GAME_END
    /\ game.player1_hp = last.before.player1_hp - 1
    /\ game.player2_hp = last.before.player2_hp - 1
    /\ KnockedOut(game)
    /\ (game.player1_hp > 0 \/ game.player2_hp > 0)

\* ------------------------------------------------------------------- C39

Max(a, b) == IF a >= b THEN a ELSE b

\* C39: each seat's HP is at most MAX_HP and at least
\* 1 - max(CLUB_DAMAGE, 3), and it is below 1 only in game_end.
C39_HpBounds ==
    \A seat \in {SeatA(game), SeatB(game)} :
        /\ HpOf(game, seat) <= MAX_HP
        /\ HpOf(game, seat) >= 1 - Max(CLUB_DAMAGE, 3)
        /\ HpOf(game, seat) < 1 => game.state = GAME_END

\* A Guess that missed by 2 took the committing seat from 1 HP to -2 and
\* ended the game.
C39_Witness ==
    /\ Did(GUESS)
    /\ game.state = GAME_END
    /\ HpOf(last.before, OtherSeat(game, last.player_id)) = 1
    /\ HpOf(game, OtherSeat(game, last.player_id)) = -2

\* ------------------------------------------------------------------- C40

\* C40 as claimed: once end_game has run on a session with a winner, the
\* winner's row has one win more and no loss more, and the loser's row one
\* loss more and no win more than the rows of before the game, whichever
\* seat won.
C40_AsClaimed ==
    (result # NoResult /\ result[1] # None)
        => LET winner_id == result[1]
               loser_id == OtherSeat(game, winner_id)
           IN  /\ players[winner_id] = PlayerRow(1, 0)
               /\ players[loser_id] = PlayerRow(0, 2)

====
